---- MODULE Spec2Model ----
(***************************************************************************)
(* django-formidable: dynamic form classes and the conditional removal     *)
(* pass of BaseDynamicForm (formidable/forms/__init__.py).                 *)
(*                                                                         *)
(* A form class is produced from a formidable object (or a schema); an     *)
(* instance validates a submission field by field, then clean() removes    *)
(* the fields that the conditions say must not be displayed.               *)
(***************************************************************************)
EXTENDS Integers, Sequences, FiniteSets, TLC

(* ------------------------------ bounds -------------------------------- *)

\* longest condition list attached to a form in the removal specification
MaxConds == 2
\* number of direct get_removed_fields calls made on one validation snapshot
MaxCalls == 2
\* number of Formidable objects the database may hold
MaxForms == 2

(* ------------------------------ domains ------------------------------- *)

Slugs == {"A", "B", "C"}
\* canonical iteration order of a collection of slugs
SlugSeq == <<"A", "B", "C">>
Values == {"true", "false"}
Invalid == "invalid"
NoRole == "none"
Roles == {"guest"}
NoCall == <<"no call">>

SeqOf(S) == SelectSeq(SlugSeq, LAMBDA s : s \in S)
Range(q) == {q[i] : i \in 1..Len(q)}
IsSubSeq(a, b) == a = SelectSeq(b, LAMBDA s : s \in Range(a))
Pop(f, k) == [x \in DOMAIN f \ {k} |-> f[x]]
EmptyMap == [x \in {} |-> x]
PermsOf(q) == {p \in [1..Len(q) -> 1..Len(q)] : \A i, j \in 1..Len(q) : p[i] = p[j] => i = j}
Permuted(q, p) == [i \in 1..Len(q) |-> q[p[i]]]

\* a condition specification: "display fields_ids iff trigger has value";
\* a predicate reads the value of a field other than its targets
ConditionSpecs ==
    {c \in [trigger : Slugs, value : Values, fields_ids : SUBSET Slugs \ {{}}] :
        c.trigger \notin c.fields_ids}
CondLists(n) == UNION {[1..k -> ConditionSpecs] : k \in 0..n}

(* --------------------------- collaborators ---------------------------- *)

\* Condition.keep_fields: the predicate read on the cleaned data snapshot;
\* a trigger with no cleaned value does not satisfy it.
keep_fields(condition, cleaned) ==
    /\ condition.trigger \in DOMAIN cleaned
    /\ cleaned[condition.trigger] = condition.value

\* conditions_register.build: one compiled condition per specification,
\* in the order given.
build(attrs, conditions) ==
    [i \in 1..Len(conditions) |->
        [fields_ids |-> SeqOf(conditions[i].fields_ids),
         trigger |-> conditions[i].trigger,
         value |-> conditions[i].value]]

(* ----------------------- get_removed_fields --------------------------- *)

\* the status replaces the slug's list instead of being appended to it
RECURSIVE FillCatalogOverwrite(_, _, _)
FillCatalogOverwrite(targets, ids, keep) ==
    IF ids = <<>> THEN targets
    ELSE LET field_id == Head(ids)
             t1 == IF field_id \in DOMAIN targets.vals
                   THEN targets
                   ELSE [targets EXCEPT !.keys = Append(@, field_id),
                                        !.vals = @ @@ (field_id :> <<>>)]
             t2 == [t1 EXCEPT !.vals[field_id] = <<keep>>]
         IN FillCatalogOverwrite(t2, Tail(ids), keep)

\* lines 59-63: one condition's status appended to each targeted slug
RECURSIVE FillCatalog(_, _, _)
FillCatalog(targets, ids, keep) ==
    IF ids = <<>> THEN targets
    ELSE LET field_id == Head(ids)
             t1 == IF field_id \in DOMAIN targets.vals
                   THEN targets
                   ELSE [targets EXCEPT !.keys = Append(@, field_id),
                                        !.vals = @ @@ (field_id :> <<>>)]
             t2 == [t1 EXCEPT !.vals[field_id] = Append(@, keep)]
         IN FillCatalog(t2, Tail(ids), keep)

\* lines 53-63: the catalog of targeted slugs; evals logs each evaluation
RECURSIVE ConditionTargets(_, _, _, _)
ConditionTargets(conds, cleaned, i, targets) ==
    IF i > Len(conds) THEN targets
    ELSE LET keep == keep_fields(conds[i], cleaned)
             t1 == FillCatalog(targets, conds[i].fields_ids, keep)
         IN ConditionTargets(conds, cleaned, i + 1,
                             [t1 EXCEPT !.evals = Append(@, i)])

\* every condition must keep the slug
all(v) == \A i \in 1..Len(v) : v[i]
\* line 68: any(v)
any(v) == \E i \in 1..Len(v) : v[i]

\* the catalog starts with every slug, targeted or not
get_removed_fields_prefilled(conds, cleaned) ==
    LET catalog == ConditionTargets(conds, cleaned, 1,
                       [keys |-> SlugSeq, vals |-> [s \in Slugs |-> <<>>], evals |-> <<>>])
        condition_targets == [k \in DOMAIN catalog.vals |-> any(catalog.vals[k])]
    IN [removed |-> SelectSeq(catalog.keys, LAMBDA k : ~condition_targets[k]),
        evals |-> catalog.evals]
\* the kept slugs are returned instead of the others
get_removed_fields_inverted(conds, cleaned) ==
    LET catalog == ConditionTargets(conds, cleaned, 1,
                       [keys |-> <<>>, vals |-> EmptyMap, evals |-> <<>>])
        condition_targets == [k \in DOMAIN catalog.vals |-> any(catalog.vals[k])]
    IN [removed |-> SelectSeq(catalog.keys, LAMBDA k : condition_targets[k]),
        evals |-> catalog.evals]
\* lines 48-71
get_removed_fields(conds, cleaned) ==
    LET catalog == ConditionTargets(conds, cleaned, 1,
                       [keys |-> <<>>, vals |-> EmptyMap, evals |-> <<>>])
        condition_targets == [k \in DOMAIN catalog.vals |-> any(catalog.vals[k])]
    IN [removed |-> SelectSeq(catalog.keys, LAMBDA k : ~condition_targets[k]),
        evals |-> catalog.evals]

(* ------------------------------- clean -------------------------------- *)

\* the field object is left in the field mapping
RECURSIVE RemoveFieldsKeepField(_, _)
RemoveFieldsKeepField(removed, form) ==
    IF removed = <<>> THEN form
    ELSE LET field_id == Head(removed)
         IN RemoveFieldsKeepField(Tail(removed),
                [cleaned_data |-> Pop(form.cleaned_data, field_id),
                 errors |-> Pop(form.errors, field_id),
                 fields |-> form.fields])

\* lines 77-84: the loop over the removed fields
RECURSIVE RemoveFields(_, _)
RemoveFields(removed, form) ==
    IF removed = <<>> THEN form
    ELSE LET field_id == Head(removed)
         IN RemoveFields(Tail(removed),
                [cleaned_data |-> Pop(form.cleaned_data, field_id),
                 errors |-> Pop(form.errors, field_id),
                 fields |-> SelectSeq(form.fields, LAMBDA s : s # field_id)])

\* the conditions are evaluated again after each deletion
RECURSIVE Cascade(_, _, _, _)
Cascade(conds, form, removed, log) ==
    LET pass == get_removed_fields(conds, form.cleaned_data)
        fresh == SelectSeq(pass.removed, LAMBDA k : k \notin Range(removed))
    IN IF fresh = <<>>
       THEN [cleaned_data |-> form.cleaned_data, errors |-> form.errors,
             fields |-> form.fields, removed |-> removed, evals |-> log \o pass.evals]
       ELSE Cascade(conds, RemoveFields(<<Head(fresh)>>, form),
                    Append(removed, Head(fresh)), log \o pass.evals)
CleanResultCascade(conds, form) == Cascade(conds, form, <<>>, <<>>)

\* lines 73-86 as a function of the instance
CleanResult(conds, form) ==
    LET pass == get_removed_fields(conds, form.cleaned_data)
        after == RemoveFields(pass.removed, form)
    IN [cleaned_data |-> after.cleaned_data, errors |-> after.errors,
        fields |-> after.fields, removed |-> pass.removed, evals |-> pass.evals]

(* --------------------------- form classes ----------------------------- *)

\* FormFieldFactory.produce: the field object (named by its slug), or
\* SkipField when the role has no access to the field
SkipField == "SkipField"
produce(field, for_role) ==
    IF for_role # NoRole /\ field.access = "HIDDEN" THEN SkipField ELSE field.slug

\* lines 97-103 and 150-156: the fields produced, in iteration order
RECURSIVE ProduceAll(_, _, _)
ProduceAll(defs, for_role, attrs) ==
    IF defs = <<>> THEN attrs
    ELSE LET form_field == produce(Head(defs), for_role)
         IN ProduceAll(Tail(defs), for_role,
                IF form_field = SkipField THEN attrs ELSE Append(attrs, Head(defs).slug))

\* line 150: the orderings fields.order_by('order') may return
OrderBy(defs) ==
    {Permuted(defs, p) : p \in
        {q \in PermsOf(defs) : \A i, j \in 1..Len(defs) :
            i < j => defs[q[i]].order <= defs[q[j]].order}}

\* lines 89-112
get_dynamic_form_class_from_schema(schema) ==
    LET attrs == ProduceAll(schema.fields, NoRole, <<>>)
    IN [base_fields |-> attrs, _conditions |-> build(attrs, schema.conditions)]

\* the fields are taken in discovery order
get_dynamic_form_class_unordered(form, for_role, ordered) ==
    LET attrs == ProduceAll(form.fields, for_role, <<>>)
    IN [base_fields |-> attrs, _conditions |-> build(attrs, form.conditions)]
\* the role is not handed to the field factory
get_dynamic_form_class_any_role(form, for_role, ordered) ==
    LET attrs == ProduceAll(ordered, NoRole, <<>>)
    IN [base_fields |-> attrs, _conditions |-> build(attrs, form.conditions)]
\* lines 115-160; ordered is what order_by('order') returned
get_dynamic_form_class(form, for_role, ordered) ==
    LET attrs == ProduceAll(ordered, for_role, <<>>)
    IN [base_fields |-> attrs, _conditions |-> build(attrs, form.conditions)]

(* --------------------------- to_formidable ---------------------------- *)

None == "None"
Falsy(x) == x \in {None, ""}
Or(x, y) == IF Falsy(x) THEN y ELSE x
\* instance=None: no Formidable object (primary keys start at 1)
NoPk == 0
Raised(error) == [raised |-> error, form |-> NoPk]
Returned(form) == [raised |-> "", form |-> form]
ValueError == Raised("ValueError")
NoResult == Returned(NoPk)

\* Field.to_formidable(form, order, slug): one Field row for the form
field_to_formidable(rows, form, order, slug) ==
    rows \cup {[form |-> form, slug |-> slug, order |-> order]}

\* lines 187-190: every declared field written with its order
RECURSIVE WriteFields(_, _, _, _)
WriteFields(rows, form, declared, order) ==
    IF order >= Len(declared) THEN rows
    ELSE WriteFields(field_to_formidable(rows, form, order, declared[order + 1]),
                     form, declared, order + 1)

\* lines 194-215
get_clean_form(db, form, label, description) ==
    LET rows == {r \in db.fields : r.form # form}
    IN IF ~Falsy(description) \/ ~Falsy(label)
       THEN [forms |-> [db.forms EXCEPT ![form] =
                          [label |-> Or(label, @.label),
                           description |-> Or(description, @.description)]],
             fields |-> rows]
       ELSE [forms |-> db.forms, fields |-> rows]

\* the Formidable is created before the label is looked at
to_formidable_create_first(db, declared, label, description, instance) ==
    LET pk == Len(db.forms) + 1
        forms == Append(db.forms, [label |-> label, description |-> Or(description, "")])
    IN IF Falsy(label)
       THEN [forms |-> forms, fields |-> db.fields, result |-> ValueError]
       ELSE [forms |-> forms, fields |-> WriteFields(db.fields, pk, declared, 0), result |-> Returned(pk)]
\* lines 175-192; Formidable.objects.create gives the next primary key
to_formidable(db, declared, label, description, instance) ==
    IF instance = NoPk
    THEN IF Falsy(label)
         THEN [forms |-> db.forms, fields |-> db.fields, result |-> ValueError]
         ELSE LET pk == Len(db.forms) + 1
                  forms == Append(db.forms,
                              [label |-> label, description |-> Or(description, "")])
              IN [forms |-> forms, fields |-> WriteFields(db.fields, pk, declared, 0),
                  result |-> Returned(pk)]
    ELSE LET clean_form == get_clean_form(db, instance, label, description)
         IN [forms |-> clean_form.forms,
             fields |-> WriteFields(clean_form.fields, instance, declared, 0),
             result |-> Returned(instance)]

(* ------------------------------- state -------------------------------- *)

VARIABLES
    phase,          \* "unbuilt", "built", "validated", "cleaned"
    formidable,     \* the persisted definition the class is produced from
    base_fields,    \* the form class's field mapping (ordered slugs)
    _conditions,    \* the form class's compiled conditions
    fields,         \* the instance's active field mapping (ordered slugs)
    cleaned_data,   \* the instance's cleaned data
    errors,         \* the instance's errors
    pre,            \* the instance as handed to clean by field validation
    removed_fields, \* what the last removal pass returned
    evals,          \* the conditions evaluated by the last removal pass
    calls,          \* direct get_removed_fields calls on this snapshot
    generator,      \* which function produced the class: "schema", "formidable"
    role,           \* the role the class was produced for
    declared_fields,\* the declared fields of a FormidableForm subclass
    db_forms,       \* the Formidable table: pk -> label, description
    db_fields,      \* the Field table: rows of form pk, slug, order
    call,           \* the arguments of the last to_formidable call
    result          \* what it returned (a pk), or the error it raised

vars == <<phase, formidable, base_fields, _conditions, fields, cleaned_data,
          errors, pre, removed_fields, evals, calls, generator, role,
          declared_fields, db_forms, db_fields, call, result>>
\* the FormidableForm subclass and the database
persisted == <<declared_fields, db_forms, db_fields, call, result>>
\* a dynamic form instance
instance_vars == <<phase, fields, cleaned_data, errors, pre, removed_fields, evals, calls>>
\* the definition and the class produced from it
klass == <<formidable, base_fields, _conditions, generator, role>>

NoArgs == [label |-> None, description |-> None, instance |-> NoPk, made |-> FALSE]
Form == [cleaned_data |-> cleaned_data, errors |-> errors, fields |-> fields]
NoForm == [cleaned_data |-> EmptyMap, errors |-> EmptyMap, fields |-> <<>>]

FieldDef(slug, order, access) == [slug |-> slug, order |-> order, access |-> access]
DefaultFields == <<FieldDef("A", 0, "EDITABLE"), FieldDef("B", 1, "EDITABLE"),
                   FieldDef("C", 2, "EDITABLE")>>

\* a form class produced for DefaultFields and any bounded condition list,
\* and a fresh unbound instance of it
Init ==
    /\ phase = "built"
    /\ \E conds \in CondLists(MaxConds) :
          /\ formidable = [fields |-> DefaultFields, conditions |-> conds]
          /\ LET class == get_dynamic_form_class(formidable, NoRole, DefaultFields)
             IN /\ base_fields = class.base_fields
                /\ _conditions = class._conditions
    /\ fields = base_fields
    /\ generator = "formidable"
    /\ role = NoRole
    /\ cleaned_data = EmptyMap
    /\ errors = EmptyMap
    /\ pre = NoForm
    /\ removed_fields = NoCall
    /\ evals = <<>>
    /\ calls = 0
    /\ declared_fields = <<>>
    /\ db_forms = <<>>
    /\ db_fields = {}
    /\ call = NoArgs
    /\ result = NoResult

\* forms.Form field validation of a submission: a value that validates is
\* recorded in cleaned_data, one that does not is recorded in errors
CleanFields ==
    /\ phase = "built"
    /\ \E data \in [Range(fields) -> Values \cup {Invalid}] :
          /\ cleaned_data' = [s \in {x \in Range(fields) : data[x] # Invalid} |-> data[s]]
          /\ errors' = [s \in {x \in Range(fields) : data[x] = Invalid} |-> "invalid"]
    /\ phase' = "validated"
    /\ removed_fields' = NoCall
    /\ evals' = <<>>
    /\ calls' = 0
    /\ UNCHANGED <<klass, fields, pre, persisted>>

\* the pass consumes the condition list it iterates
GetRemovedFieldsExhausting ==
    /\ phase = "validated"
    /\ calls < MaxCalls
    /\ LET pass == get_removed_fields(_conditions, cleaned_data)
       IN /\ removed_fields' = pass.removed
          /\ evals' = pass.evals
    /\ calls' = calls + 1
    /\ _conditions' = <<>>
    /\ UNCHANGED <<phase, formidable, base_fields, generator, role, fields,
                   cleaned_data, errors, pre, persisted>>

\* a direct call of get_removed_fields(cleaned_data), its result consumed
GetRemovedFields ==
    /\ phase = "validated"
    /\ calls < MaxCalls
    /\ LET pass == get_removed_fields(_conditions, cleaned_data)
       IN /\ removed_fields' = pass.removed
          /\ evals' = pass.evals
    /\ calls' = calls + 1
    /\ UNCHANGED <<phase, klass, fields, cleaned_data, errors, pre, persisted>>

\* BaseDynamicForm.clean
Clean ==
    /\ phase = "validated"
    /\ LET r == CleanResult(_conditions, Form)
       IN /\ cleaned_data' = r.cleaned_data
          /\ errors' = r.errors
          /\ fields' = r.fields
          /\ removed_fields' = r.removed
          /\ evals' = r.evals
    /\ pre' = Form
    /\ phase' = "cleaned"
    /\ calls' = 0
    /\ UNCHANGED <<klass, persisted>>

\* the instance is discarded and the class instantiated again
NewInstance ==
    /\ phase = "cleaned"
    /\ phase' = "built"
    /\ fields' = base_fields
    /\ cleaned_data' = EmptyMap
    /\ errors' = EmptyMap
    /\ pre' = NoForm
    /\ removed_fields' = NoCall
    /\ evals' = <<>>
    /\ calls' = 0
    /\ UNCHANGED <<klass, persisted>>

\* get_dynamic_form_class_from_schema(schema), then an instance
BuildFromSchema ==
    /\ phase = "unbuilt"
    /\ LET class == get_dynamic_form_class_from_schema(formidable)
       IN /\ base_fields' = class.base_fields
          /\ _conditions' = class._conditions
          /\ fields' = class.base_fields
    /\ generator' = "schema"
    /\ role' = NoRole
    /\ phase' = "built"
    /\ UNCHANGED <<formidable, cleaned_data, errors, pre, removed_fields, evals, calls, persisted>>

\* get_dynamic_form_class(formidable, role), then an instance
BuildFromFormidable ==
    /\ phase = "unbuilt"
    /\ \E for_role \in {NoRole} \cup Roles, ordered \in OrderBy(formidable.fields) :
          LET class == get_dynamic_form_class(formidable, for_role, ordered)
          IN /\ base_fields' = class.base_fields
             /\ _conditions' = class._conditions
             /\ fields' = class.base_fields
             /\ role' = for_role
    /\ generator' = "formidable"
    /\ phase' = "built"
    /\ UNCHANGED <<formidable, cleaned_data, errors, pre, removed_fields, evals, calls, persisted>>

\* a persisted definition: the fields in discovery order, each with its
\* order attribute (nothing makes two orders differ) and its access for
\* the guest role, and its conditions
Definitions ==
    {[fields |-> [i \in DOMAIN SlugSeq |-> FieldDef(SlugSeq[i], o[i] - 1, a[i])], conditions |-> c] :
        o \in [DOMAIN SlugSeq -> DOMAIN SlugSeq],
        a \in [DOMAIN SlugSeq -> {"EDITABLE", "HIDDEN"}],
        c \in CondLists(1)}

InitBuild ==
    /\ phase = "unbuilt"
    /\ formidable \in Definitions
    /\ base_fields = <<>>
    /\ _conditions = <<>>
    /\ fields = <<>>
    /\ generator = "none"
    /\ role = NoRole
    /\ cleaned_data = EmptyMap
    /\ errors = EmptyMap
    /\ pre = NoForm
    /\ removed_fields = NoCall
    /\ evals = <<>>
    /\ calls = 0
    /\ declared_fields = <<>>
    /\ db_forms = <<>>
    /\ db_fields = {}
    /\ call = NoArgs
    /\ result = NoResult

Labels == {None, "", "survey"}
Descriptions == {None, "text"}
\* the declared fields of a FormidableForm subclass, in declaration order
Declarations == {q \in UNION {[1..k -> Slugs] : k \in 0..Len(SlugSeq)} :
                    \A i, j \in DOMAIN q : q[i] = q[j] => i = j}

\* FormidableForm.to_formidable(label, description, instance)
ToFormidable ==
    /\ \E label \in Labels, description \in Descriptions,
          instance \in {NoPk} \cup DOMAIN db_forms :
          /\ (instance = NoPk /\ ~Falsy(label)) => Len(db_forms) < MaxForms
          /\ LET r == to_formidable([forms |-> db_forms, fields |-> db_fields],
                                    declared_fields, label, description, instance)
             IN /\ db_forms' = r.forms
                /\ db_fields' = r.fields
                /\ result' = r.result
          /\ call' = [label |-> label, description |-> description,
                      instance |-> instance, made |-> TRUE]
    /\ UNCHANGED <<declared_fields, klass, instance_vars>>

InitPersist ==
    /\ declared_fields \in Declarations
    /\ db_forms = <<>>
    /\ db_fields = {}
    /\ call = NoArgs
    /\ result = NoResult
    /\ phase = "unbuilt"
    /\ formidable = [fields |-> <<>>, conditions |-> <<>>]
    /\ base_fields = <<>>
    /\ _conditions = <<>>
    /\ fields = <<>>
    /\ generator = "none"
    /\ role = NoRole
    /\ cleaned_data = EmptyMap
    /\ errors = EmptyMap
    /\ pre = NoForm
    /\ removed_fields = NoCall
    /\ evals = <<>>
    /\ calls = 0

\* a FormidableForm subclass saved, and saved again, as formidable objects
NextPersist == ToFormidable
SpecPersist == InitPersist /\ [][NextPersist]_vars

\* validation of instances of one form class
Next == CleanFields \/ Clean \/ NewInstance
Spec == Init /\ [][Next]_vars

\* direct removal passes on a validated instance
NextPass == CleanFields \/ GetRemovedFields
SpecPass == Init /\ [][NextPass]_vars

\* a class produced by either generator, then validation of its instances
NextBuild == BuildFromSchema \/ BuildFromFormidable \/ CleanFields \/ Clean \/ NewInstance
SpecBuild == InitBuild /\ [][NextBuild]_vars

(* ------------------- properties of the removal pass ------------------- *)

Targets(c) == Range(c.fields_ids)
Targeted(conds, s) == \E i \in 1..Len(conds) : s \in Targets(conds[i])
\* the cleaned data the last removal pass was given
Snapshot == IF phase = "cleaned" THEN pre.cleaned_data ELSE cleaned_data
\* targeted by a condition, and kept by none that targets it
RemovedSet(conds, cleaned) ==
    {s \in Slugs : /\ Targeted(conds, s)
                   /\ \A i \in 1..Len(conds) :
                         s \in Targets(conds[i]) => ~keep_fields(conds[i], cleaned)}
Opposite(conds, cleaned, s) ==
    \E i, j \in 1..Len(conds) :
        /\ s \in Targets(conds[i]) /\ s \in Targets(conds[j])
        /\ keep_fields(conds[i], cleaned) /\ ~keep_fields(conds[j], cleaned)

\* C1: get_removed_fields returns exactly the slugs that some condition
\* targets and that no targeting condition keeps (each once); a slug two
\* conditions disagree on is kept.
Thm_C1_RemovedExactly ==
    removed_fields # NoCall =>
        /\ Range(removed_fields) = RemovedSet(_conditions, Snapshot)
        /\ Cardinality(Range(removed_fields)) = Len(removed_fields)
        /\ \A s \in Slugs : Opposite(_conditions, Snapshot, s) => s \notin Range(removed_fields)
Wit_C1_OppositeKept ==
    /\ removed_fields # NoCall /\ removed_fields # <<>>
    /\ \E s \in Slugs : Opposite(_conditions, Snapshot, s) /\ s \notin Range(removed_fields)

\* C2: a slug no condition targets survives clean: it stays in fields and
\* its cleaned_data and errors entries are what field validation left.
Thm_C2_UntargetedKept ==
    phase = "cleaned" =>
        \A s \in Range(pre.fields) : ~Targeted(_conditions, s) =>
            /\ s \in Range(fields)
            /\ (s \in DOMAIN cleaned_data) = (s \in DOMAIN pre.cleaned_data)
            /\ s \in DOMAIN cleaned_data => cleaned_data[s] = pre.cleaned_data[s]
            /\ (s \in DOMAIN errors) = (s \in DOMAIN pre.errors)
            /\ s \in DOMAIN errors => errors[s] = pre.errors[s]
Wit_C2_UntargetedKept ==
    /\ phase = "cleaned" /\ removed_fields # <<>>
    /\ \E s, t \in Range(pre.fields) :
          /\ ~Targeted(_conditions, s) /\ s \in DOMAIN errors
          /\ ~Targeted(_conditions, t) /\ t \in DOMAIN cleaned_data

\* C3: building from any permutation of the condition list gives the same
\* removed set and leaves the same fields, cleaned_data and errors.
Thm_C3_OrderIndependent ==
    phase = "cleaned" =>
        \A p \in PermsOf(formidable.conditions) :
            LET r == CleanResult(build(base_fields, Permuted(formidable.conditions, p)), pre)
            IN /\ Range(r.removed) = Range(removed_fields)
               /\ r.fields = fields
               /\ r.cleaned_data = cleaned_data
               /\ r.errors = errors
Wit_C3_OrderIndependent ==
    /\ phase = "cleaned" /\ removed_fields # <<>>
    /\ Len(_conditions) >= 2 /\ _conditions[1] # _conditions[2]
    /\ \E s \in Slugs : Opposite(_conditions, pre.cleaned_data, s)

\* C4: after clean a removed slug is in none of cleaned_data, errors and
\* fields; with the condition "keep B iff A is true" and A submitted false,
\* B leaves cleaned_data and fields and the rest of cleaned_data stays.
ScenarioKeepBIfA ==
    /\ formidable.conditions = <<[trigger |-> "A", value |-> "true", fields_ids |-> {"B"}]>>
    /\ "A" \in DOMAIN pre.cleaned_data /\ pre.cleaned_data["A"] = "false"
    /\ "B" \in DOMAIN pre.cleaned_data
Thm_C4_RemovedEverywhere ==
    phase = "cleaned" =>
        /\ \A s \in Range(removed_fields) :
              s \notin DOMAIN cleaned_data /\ s \notin DOMAIN errors /\ s \notin Range(fields)
        /\ ScenarioKeepBIfA =>
              /\ cleaned_data = Pop(pre.cleaned_data, "B")
              /\ cleaned_data["A"] = "false"
              /\ "B" \notin Range(fields)
Wit_C4_Scenario ==
    phase = "cleaned" /\ ScenarioKeepBIfA /\ removed_fields = <<"B">>
Wit_C4_ErrorRemoved ==
    phase = "cleaned" /\ \E s \in Range(removed_fields) : s \in DOMAIN pre.errors

Thm_C10_NoCascade ==
    phase = "cleaned" =>
        /\ evals = [i \in 1..Len(_conditions) |-> i]
        /\ Range(removed_fields) = RemovedSet(_conditions, pre.cleaned_data)
        /\ \A p \in PermsOf(removed_fields) :
              RemoveFields(Permuted(removed_fields, p), pre) = Form
Wit_C10_RemovedTrigger ==
    /\ phase = "cleaned"
    /\ \E i, j \in 1..Len(_conditions) :
          /\ _conditions[j].trigger \in Targets(_conditions[i])
          /\ _conditions[j].trigger \in Range(removed_fields)
          /\ keep_fields(_conditions[j], pre.cleaned_data)
          /\ \E s \in Targets(_conditions[j]) : s \in Range(fields) /\ s \in DOMAIN cleaned_data

(* ------------------- properties of the form classes ------------------- *)

DefOf(s) == CHOOSE d \in Range(formidable.fields) : d.slug = s
Hidden == {d.slug : d \in {x \in Range(formidable.fields) : x.access = "HIDDEN"}}
AllKept == \A i \in 1..Len(_conditions) : keep_fields(_conditions[i], pre.cleaned_data)
\* the slugs of the class that the conditions do not remove for the snapshot
NonRemoved == Range(base_fields) \ RemovedSet(_conditions, pre.cleaned_data)
AscendingOrder(q) == \A i, j \in 1..Len(q) : i < j => DefOf(q[i]).order <= DefOf(q[j]).order
ListOrder(q) == q = SelectSeq(SlugSeq, LAMBDA s : s \in Range(q))

\* C6 as stated: after a submission that satisfies every keep predicate,
\* the keys of cleaned_data are exactly the non-removed field slugs.
Orig_C6_RoundTrip ==
    (phase = "cleaned" /\ generator = "schema" /\ AllKept) =>
        DOMAIN cleaned_data = NonRemoved
\* C6 amended: the keys of cleaned_data are exactly the non-removed field
\* slugs that passed field validation, each with its validated value.
Thm_C6_RoundTrip ==
    (phase = "cleaned" /\ generator = "schema" /\ AllKept) =>
        /\ DOMAIN cleaned_data = NonRemoved \ DOMAIN pre.errors
        /\ \A s \in DOMAIN cleaned_data : cleaned_data[s] = pre.cleaned_data[s]
        /\ Range(fields) = NonRemoved
Wit_C6_RoundTrip ==
    /\ phase = "cleaned" /\ generator = "schema" /\ AllKept
    /\ Len(_conditions) >= 1 /\ pre.errors # EmptyMap
    /\ Targets(_conditions[1]) \subseteq DOMAIN cleaned_data

\* C7: a field hidden for the build role is in no field mapping of a class
\* produced by get_dynamic_form_class for that role, nor in the fields or
\* cleaned_data of its instances, whatever the conditions decide.
Thm_C7_RoleFiltering ==
    (generator = "formidable" /\ role \in Roles) =>
        \A s \in Hidden :
            /\ s \notin Range(base_fields)
            /\ s \notin Range(fields)
            /\ s \notin DOMAIN cleaned_data
            /\ s \notin DOMAIN errors
Wit_C7_HiddenTargetKept ==
    /\ phase = "cleaned" /\ generator = "formidable" /\ role \in Roles
    /\ Len(_conditions) >= 1 /\ AllKept
    /\ \E s \in Hidden : s \in Targets(_conditions[1])

\* C8 as stated: both generators list the non-skipped slugs in ascending
\* order attribute, and removal keeps the relative order of the rest.
Orig_C8_ExplicitOrder ==
    phase # "unbuilt" =>
        /\ AscendingOrder(base_fields)
        /\ IsSubSeq(fields, base_fields)
\* C8 amended: get_dynamic_form_class lists the non-skipped slugs in
\* ascending order attribute, get_dynamic_form_class_from_schema lists them
\* in the order of the schema's field list, and removal keeps the relative
\* order of the remaining fields.
Thm_C8_FieldOrder ==
    phase # "unbuilt" =>
        /\ generator = "formidable" =>
              /\ AscendingOrder(base_fields)
              /\ Range(base_fields) = IF role \in Roles THEN Slugs \ Hidden ELSE Slugs
        /\ generator = "schema" => ListOrder(base_fields) /\ Range(base_fields) = Slugs
        /\ IsSubSeq(fields, base_fields)
        /\ phase = "cleaned" => Range(fields) = Range(base_fields) \ Range(removed_fields)
Wit_C8_Formidable ==
    /\ phase = "cleaned" /\ generator = "formidable" /\ ~ListOrder(base_fields)
    /\ Len(fields) = 2 /\ Len(base_fields) = 3 /\ fields[1] = base_fields[1] /\ fields[2] = base_fields[3]
Wit_C8_Schema ==
    /\ phase = "cleaned" /\ generator = "schema" /\ ~AscendingOrder(base_fields)
    /\ removed_fields # <<>>

(* --------------------- properties of to_formidable -------------------- *)

RowsOf(pk) == {r \in db_fields : r.form = pk}
DeclaredRows(pk) ==
    {[form |-> pk, slug |-> declared_fields[i], order |-> i - 1] : i \in DOMAIN declared_fields}

\* C9: to_formidable without an instance and without a non-empty label
\* raises and leaves the database as it was; without an instance and with
\* a label it creates one Formidable and writes the declared fields with
\* orders 0, 1, 2, ... in declaration order.
Thm_C9_LabelRequired ==
    [][/\ (call'.instance = NoPk /\ Falsy(call'.label)) =>
             /\ result' = ValueError
             /\ UNCHANGED <<db_forms, db_fields>>
       /\ (call'.instance = NoPk /\ ~Falsy(call'.label)) =>
             /\ Len(db_forms') = Len(db_forms) + 1
             /\ SubSeq(db_forms', 1, Len(db_forms)) = db_forms
             /\ result' = Returned(Len(db_forms'))
             /\ db_forms'[result'.form].label = call'.label
             /\ db_fields' = db_fields \cup {[form |-> result'.form, slug |-> declared_fields[i],
                                               order |-> i - 1] : i \in DOMAIN declared_fields}
             /\ Cardinality(db_fields') = Cardinality(db_fields) + Len(declared_fields)
      ]_vars
Wit_C9_RaisedAfterCreate ==
    /\ call.made /\ call.instance = NoPk /\ call.label = "" /\ result = ValueError
    /\ Len(db_forms) = 1 /\ Len(declared_fields) = 3
    /\ RowsOf(1) = DeclaredRows(1) /\ Cardinality(RowsOf(1)) = 3

====
